---------------------------- MODULE Spec2Model ----------------------------
(***************************************************************************)
(* A model of kal.cc: the Kaleidoscope front end (lexer on standard input, *)
(* recursive-descent / precedence-climbing parser, lowering to LLVM IR and *)
(* the driver loop).                                                       *)
(*                                                                         *)
(* Characters are C ints (ASCII codes, EOF = -1) as getchar() returns      *)
(* them; std::string values are strings; the AST and the IR are records.   *)
(* Every parsing and lowering function of the source is an operator that   *)
(* takes the program state (a record of all the globals) and returns the   *)
(* state it leaves together with its return value.  One action of the      *)
(* state machine is one iteration of MainLoop (or the part of main before  *)
(* the loop).                                                              *)
(***************************************************************************)
EXTENDS Integers, Sequences, FiniteSets, TLC

VARIABLES
  input,            \* the characters standard input will deliver
  pos,              \* how many of them getchar() has delivered
  LastChar,         \* getTok's static LastChar
  IndetifierStr,    \* filled if tok_identifier
  NumVal,           \* filled if tok_number
  CurTok,           \* the parser's current token
  BinopPrecedence,  \* std::map<char,int>
  TheModule,        \* the LLVM module: its function list and symbol table
  Builder,          \* the IRBuilder's insertion point (a function's entry block)
  NamedValues,      \* std::map<std::string, Value*>
  log,              \* the diagnostics LogError wrote to stderr
  pc,               \* where main is: "start" (before MainLoop), "loop",
                    \* "returned" (from MainLoop), "exited", "killed"
  ntok,             \* number of getTok calls made so far
  last,             \* what the last step of main did
  gen               \* how the input was put together

vars == <<input, pos, LastChar, IndetifierStr, NumVal, CurTok, BinopPrecedence,
          TheModule, Builder, NamedValues, log, pc, ntok, last,
          gen>>

-----------------------------------------------------------------------------
(* Bounds of the model.                                                    *)

\* number of source lines in one input of Spec
MaxItems == 3
\* number of binary operators in an expression input of SpecParse
MaxOperators == 3

-----------------------------------------------------------------------------
(* Characters.                                                             *)

EOF == -1

\* the printable ASCII characters with codes 32 .. 95
PrintableLow ==
  << " ", "!", "\"", "#", "$", "%", "&", "'", "(", ")", "*", "+", ",", "-",
     ".", "/", "0", "1", "2", "3", "4", "5", "6", "7", "8", "9", ":", ";",
     "<", "=", ">", "?", "@", "A", "B", "C", "D", "E", "F", "G", "H", "I",
     "J", "K", "L", "M", "N", "O", "P", "Q", "R", "S", "T", "U", "V", "W",
     "X", "Y", "Z", "[", "\\", "]", "^", "_" >>

\* the printable ASCII characters with codes 97 .. 126
PrintableHigh ==
  << "a", "b", "c", "d", "e", "f", "g", "h", "i", "j", "k", "l", "m", "n",
     "o", "p", "q", "r", "s", "t", "u", "v", "w", "x", "y", "z", "{", "|",
     "}", "~" >>

\* the int getchar() returns for a character of the input
Ord(c) ==
  IF c = "\n" THEN 10
  ELSE IF c = "\t" THEN 9
  ELSE IF c = "\r" THEN 13
  ELSE IF \E i \in 1..Len(PrintableLow) : PrintableLow[i] = c
    THEN 31 + (CHOOSE i \in 1..Len(PrintableLow) : PrintableLow[i] = c)
    ELSE 96 + (CHOOSE i \in 1..Len(PrintableHigh) : PrintableHigh[i] = c)

\* the one-character std::string of a printable character code
Chr(n) == IF n < 96 THEN PrintableLow[n - 31] ELSE PrintableHigh[n - 96]

\* the character literals of the source
ch_lparen == Ord("(")
ch_rparen == Ord(")")
ch_comma == Ord(",")
ch_dot == Ord(".")
ch_hash == Ord("#")
ch_semi == Ord(";")
ch_lt == Ord("<")
ch_plus == Ord("+")
ch_minus == Ord("-")
ch_star == Ord("*")
ch_nl == Ord("\n")
ch_cr == Ord("\r")
ch_space == Ord(" ")

isspace(c) == c \in {32} \cup (9..13)
isdigit(c) == c \in 48..57
isalpha(c) == c \in (65..90) \cup (97..122)
isalnum(c) == isalpha(c) \/ isdigit(c)
isascii(c) == c \in 0..127

-----------------------------------------------------------------------------
(* Lexer.                                                                  *)
(*                                                                         *)
(* Bind(v, F) names a value: it is F applied to v, where the source has a  *)
(* local variable that holds v.                                            *)

Bind(v, F(_)) == F(v)

tok_eof == -1
tok_def == -2
tok_extern == -3
tok_identifier == -4
tok_number == -5

\* LastChar = getchar()
ReadChar(s) ==
  IF s.pos < Len(input)
    THEN [s EXCEPT !.pos = @ + 1, !.LastChar = Ord(input[s.pos + 1])]
    ELSE [s EXCEPT !.LastChar = EOF]

RECURSIVE SkipSpace(_)
\* while (isspace(LastChar)) LastChar = getchar();
SkipSpace(s) == IF isspace(s.LastChar) THEN SkipSpace(ReadChar(s)) ELSE s

RECURSIVE ReadIdentifier(_)
\* while (isalnum(LastChar = getchar())) IndetifierStr += LastChar;
ReadIdentifier(s) ==
  Bind(ReadChar(s), LAMBDA t :
    IF isalnum(t.LastChar)
      THEN ReadIdentifier([t EXCEPT !.IndetifierStr = @ \o Chr(t.LastChar)])
      ELSE t)

RECURSIVE ReadNumber(_, _)
\* do { NumStr += LastChar; LastChar = getchar(); }
\* while (isdigit(LastChar) || LastChar == '.');
ReadNumber(s, NumStr) ==
  Bind(ReadChar(s), LAMBDA t :
    IF isdigit(t.LastChar) \/ t.LastChar = ch_dot
      THEN ReadNumber(t, Append(NumStr, s.LastChar))
      ELSE [st |-> t, NumStr |-> Append(NumStr, s.LastChar)])

RECURSIVE SkipComment(_)
\* do LastChar = getchar(); while (LastChar != EOF && != '\n' && != '\r');
SkipComment(s) ==
  Bind(ReadChar(s), LAMBDA t :
    IF t.LastChar # EOF /\ t.LastChar # ch_nl /\ t.LastChar # ch_cr
      THEN SkipComment(t)
      ELSE t)

\* A decimal num / den, den a power of ten, in lowest such terms.  It stands
\* for the double nearest to it (what strtod returns for its digits).
RECURSIVE Normal(_)
Normal(v) ==
  IF v.den > 1 /\ v.num % 10 = 0
    THEN Normal([num |-> v.num \div 10, den |-> v.den \div 10])
    ELSE v

RECURSIVE DigitRun(_, _)
\* the length of the run of digits of str starting at index i
DigitRun(str, i) ==
  IF i <= Len(str) /\ isdigit(str[i]) THEN 1 + DigitRun(str, i + 1) ELSE 0

RECURSIVE DigitsValue(_, _, _)
\* the number the n digits of str from index i spell
DigitsValue(str, i, n) ==
  IF n = 0 THEN 0
  ELSE 10 * DigitsValue(str, i, n - 1) + (str[i + n - 1] - 48)

RECURSIVE Pow10(_)
Pow10(n) == IF n = 0 THEN 1 ELSE 10 * Pow10(n - 1)

\* the value of ni integer digits followed by nf fraction digits
Decimal(str, ni, nf) ==
  IF ni + nf = 0 THEN [num |-> 0, den |-> 1]
  ELSE Normal([num |-> DigitsValue(str, 1, ni) * Pow10(nf)
                        + DigitsValue(str, ni + 2, nf),
               den |-> Pow10(nf)])

\* strtod on a string of digits and '.': the longest prefix  digits [. digits]
\* that holds a digit is converted, and no conversion gives 0.
strtod(str) ==
  Bind(DigitRun(str, 1), LAMBDA ni :
    IF ni + 1 <= Len(str) /\ str[ni + 1] = ch_dot
      THEN Decimal(str, ni, DigitRun(str, ni + 2))
      ELSE Decimal(str, ni, 0))

RECURSIVE getTok(_)
\* returns the state getTok leaves and the token it returns
getTok(s0) ==
  Bind(SkipSpace(s0), LAMBDA s :
    IF isalpha(s.LastChar) THEN
      Bind(ReadIdentifier([s EXCEPT !.IndetifierStr = Chr(s.LastChar)]),
           LAMBDA t :
        [st |-> t,
         r  |-> IF t.IndetifierStr = "def" THEN tok_def
                ELSE IF t.IndetifierStr = "extern" THEN tok_extern
                ELSE tok_identifier])
    ELSE IF isdigit(s.LastChar) \/ s.LastChar = ch_dot THEN
      Bind(ReadNumber(s, << >>), LAMBDA n :
        [st |-> [n.st EXCEPT !.NumVal = strtod(n.NumStr)], r |-> tok_number])
    ELSE
      Bind(IF s.LastChar = ch_hash THEN SkipComment(s) ELSE s, LAMBDA t :
        IF s.LastChar = ch_hash /\ t.LastChar # EOF THEN getTok(t)
        ELSE IF t.LastChar = EOF THEN [st |-> t, r |-> tok_eof]
        ELSE [st |-> ReadChar(t), r |-> t.LastChar]))

-----------------------------------------------------------------------------
(* AST.  nullptr is Null.                                                  *)

Null == [kind |-> "nullptr"]

NumberExprAST(Val) == [kind |-> "Number", Val |-> Val]
VariableExprAST(Name) == [kind |-> "Variable", Name |-> Name]
BinaryExprAST(Op, LHS, RHS) ==
  [kind |-> "Binary", Op |-> Op, LHS |-> LHS, RHS |-> RHS]
CallExprAST(Callee, Args) == [kind |-> "Call", Callee |-> Callee, Args |-> Args]
PrototypeAST(Name, Args) == [kind |-> "Prototype", Name |-> Name, Args |-> Args]
FunctionAST(Proto, Body) == [kind |-> "Function", Proto |-> Proto, Body |-> Body]

-----------------------------------------------------------------------------
(* Parser.  A parsing function returns [st, r]: the state it leaves and    *)
(* the node it returns.                                                    *)

\* return CurTok = getTok();
getNextTok(s) ==
  Bind(getTok(s), LAMBDA g : [g.st EXCEPT !.CurTok = g.r, !.ntok = @ + 1])

\* fprintf(stderr, "%s\n", Str); return nullptr;
LogError(s, Str) == [st |-> [s EXCEPT !.log = Append(@, Str)], r |-> Null]

\* BinopPrecedence[CurTok]: std::map::operator[] default-constructs the
\* entry of a key the map does not hold
Subscript(map, key) == IF key \in DOMAIN map THEN map ELSE map @@ (key :> 0)

\* GetTokPrecedence with a slip: the result -1 is stored in the table.
\* C10 tells the code from it.
GetTokPrecedence_StoresResult(s) ==
  IF ~isascii(s.CurTok) THEN [st |-> s, r |-> -1]
  ELSE
    Bind(Subscript(s.BinopPrecedence, s.CurTok), LAMBDA m :
      IF m[s.CurTok] <= 0
        THEN [st |-> [s EXCEPT !.BinopPrecedence =
                        [m EXCEPT ![s.CurTok] = -1]],
              r  |-> -1]
        ELSE [st |-> [s EXCEPT !.BinopPrecedence = m], r |-> m[s.CurTok]])

GetTokPrecedence(s) ==
  IF ~isascii(s.CurTok) THEN [st |-> s, r |-> -1]
  ELSE
    Bind(Subscript(s.BinopPrecedence, s.CurTok), LAMBDA m :
      [st |-> [s EXCEPT !.BinopPrecedence = m],
       r  |-> IF m[s.CurTok] <= 0 THEN -1 ELSE m[s.CurTok]])

ParseNumberExpr(s) == [st |-> getNextTok(s), r |-> NumberExprAST(s.NumVal)]

RECURSIVE ParseExpression(_), ParsePrimary(_), ParseParenExpr(_),
          ParseIdentifierExpr(_), ParseCallArgs(_, _),
          ParseBinaryOpRHS(_, _, _)

ParseParenExpr(s) ==
  Bind(ParseExpression(getNextTok(s)), LAMBDA V :
    IF V.r = Null THEN V
    ELSE IF V.st.CurTok # ch_rparen THEN LogError(V.st, "Expected ')'")
    ELSE [st |-> getNextTok(V.st), r |-> V.r])

\* the while (true) loop of ParseIdentifierExpr, entered with the arguments
\* parsed so far; ok is FALSE where the source returns nullptr
ParseCallArgs(s, Args) ==
  Bind(ParseExpression(s), LAMBDA Arg :
    IF Arg.r = Null THEN [st |-> Arg.st, ok |-> FALSE, r |-> Args]
    ELSE IF Arg.st.CurTok = ch_rparen
      THEN [st |-> Arg.st, ok |-> TRUE, r |-> Append(Args, Arg.r)]
    ELSE IF Arg.st.CurTok # ch_comma
      THEN [st |-> LogError(Arg.st, "Expected ')' or ',' in argument list.").st,
            ok |-> FALSE, r |-> Args]
    ELSE ParseCallArgs(getNextTok(Arg.st), Append(Args, Arg.r)))

ParseIdentifierExpr(s) ==
  Bind(getNextTok(s), LAMBDA s1 :
    IF s1.CurTok # ch_lparen
      THEN [st |-> s1, r |-> VariableExprAST(s.IndetifierStr)]
      ELSE
        Bind(getNextTok(s1), LAMBDA s2 :
          Bind(IF s2.CurTok # ch_rparen
                 THEN ParseCallArgs(s2, << >>)
                 ELSE [st |-> s2, ok |-> TRUE, r |-> << >>], LAMBDA a :
            IF ~a.ok THEN [st |-> a.st, r |-> Null]
            ELSE [st |-> getNextTok(a.st),
                  r  |-> CallExprAST(s.IndetifierStr, a.r)])))

ParsePrimary(s) ==
  IF s.CurTok = tok_identifier THEN ParseIdentifierExpr(s)
  ELSE IF s.CurTok = tok_number THEN ParseNumberExpr(s)
  ELSE IF s.CurTok = ch_lparen THEN ParseParenExpr(s)
  ELSE LogError(s, "unknown token when expecting an expression.")

\* ParseBinaryOpRHS with a slip: the pending operator's right operand is
\* parsed with TokPrec, not TokPrec + 1, as the least precedence.  C6 tells
\* the code from it.
ParseBinaryOpRHS_SamePrec(s, ExprPrec, LHS) ==
  Bind(GetTokPrecedence(s), LAMBDA t :
    IF t.r < ExprPrec THEN [st |-> t.st, r |-> LHS]
    ELSE
      Bind(ParsePrimary(getNextTok(t.st)), LAMBDA RHS :
        IF RHS.r = Null THEN RHS
        ELSE
          Bind(GetTokPrecedence(RHS.st), LAMBDA n :
            Bind(IF t.r < n.r
                   THEN ParseBinaryOpRHS(n.st, t.r, RHS.r)
                   ELSE [st |-> n.st, r |-> RHS.r], LAMBDA RHS2 :
              IF RHS2.r = Null THEN RHS2
              ELSE ParseBinaryOpRHS(RHS2.st, ExprPrec,
                     BinaryExprAST(t.st.CurTok, LHS, RHS2.r))))))

\* One pass of the while (true) loop, then the rest of the loop.  t is the
\* first GetTokPrecedence (TokPrec is t.r, BinOp is t.st.CurTok), n the
\* second (NextPrec is n.r).
ParseBinaryOpRHS(s, ExprPrec, LHS) ==
  Bind(GetTokPrecedence(s), LAMBDA t :
    IF t.r < ExprPrec THEN [st |-> t.st, r |-> LHS]
    ELSE
      Bind(ParsePrimary(getNextTok(t.st)), LAMBDA RHS :
        IF RHS.r = Null THEN RHS
        ELSE
          Bind(GetTokPrecedence(RHS.st), LAMBDA n :
            Bind(IF t.r < n.r
                   THEN ParseBinaryOpRHS(n.st, t.r + 1, RHS.r)
                   ELSE [st |-> n.st, r |-> RHS.r], LAMBDA RHS2 :
              IF RHS2.r = Null THEN RHS2
              ELSE ParseBinaryOpRHS(RHS2.st, ExprPrec,
                     BinaryExprAST(t.st.CurTok, LHS, RHS2.r))))))

ParseExpression(s) ==
  Bind(ParsePrimary(s), LAMBDA LHS :
    IF LHS.r = Null THEN LHS ELSE ParseBinaryOpRHS(LHS.st, 0, LHS.r))

RECURSIVE ParsePrototypeArgs(_, _)
\* while (getNextTok() == tok_identifier) ArgNames.push_back(IndetifierStr);
ParsePrototypeArgs(s, ArgNames) ==
  Bind(getNextTok(s), LAMBDA t :
    IF t.CurTok = tok_identifier
      THEN ParsePrototypeArgs(t, Append(ArgNames, t.IndetifierStr))
      ELSE [st |-> t, r |-> ArgNames])

ParsePrototype(s) ==
  IF s.CurTok # tok_identifier
    THEN LogError(s, "Expected function name in prototype.")
    ELSE
      Bind(getNextTok(s), LAMBDA s1 :
        IF s1.CurTok # ch_lparen
          THEN LogError(s1, "Expected '(' in prototype.")
          ELSE
            Bind(ParsePrototypeArgs(s1, << >>), LAMBDA a :
              IF a.st.CurTok # ch_rparen
                THEN LogError(a.st, "Expected ')' in prototype.")
                ELSE [st |-> getNextTok(a.st),
                      r  |-> PrototypeAST(s.IndetifierStr, a.r)]))

ParseDefinition(s) ==
  Bind(ParsePrototype(getNextTok(s)), LAMBDA Proto :
    IF Proto.r = Null THEN Proto
    ELSE
      Bind(ParseExpression(Proto.st), LAMBDA E :
        IF E.r = Null THEN E
        ELSE [st |-> E.st, r |-> FunctionAST(Proto.r, E.r)]))

ParseExtern(s) == ParsePrototype(getNextTok(s))

ParseTopLevelExpr(s) ==
  Bind(ParseExpression(s), LAMBDA E :
    IF E.r = Null THEN E
    ELSE [st |-> E.st, r |-> FunctionAST(PrototypeAST("", << >>), E.r)])

-----------------------------------------------------------------------------
(* LLVM IR.                                                                *)
(*                                                                         *)
(* TheModule is [funcs, LastUnique, nextId]: the function list in order,   *)
(* the counter of the module's symbol table, and the identity the next     *)
(* Function object gets (a Function* is its id; 0 is nullptr).  A function *)
(* is [id, Name, Args, blocks, insts]: Args are the names of its formal    *)
(* parameters, blocks the number of its basic blocks, insts the            *)
(* instructions of its entry block.  An instruction is [op, operands,      *)
(* callee, dangling]: dangling tells that the callee was destroyed while   *)
(* the instruction called it, so that the callee operand is an address of  *)
(* freed memory and the instruction is in no use list.  A Value* is Null,  *)
(* a ConstantFP, an Argument or an Instruction; every value has type       *)
(* double.  Instruction names ("addtmp") are not kept: they are given      *)
(* after all the arguments of the function are named and nothing looks     *)
(* them up.                                                                *)
(*                                                                         *)
(* The callee operand of a dangling call is written as the id of the       *)
(* function that was last created at that address: the destroyed callee,   *)
(* or a function created later that the allocator placed there.            *)

ConstantFP(Val) == [kind |-> "ConstantFP", Val |-> Val]
Argument(fn, idx) == [kind |-> "Argument", fn |-> fn, idx |-> idx]
Instruction(fn, idx) == [kind |-> "Instruction", fn |-> fn, idx |-> idx]

\* the position in the function list of the function with this id, or 0
FnIndex(M, id) ==
  IF \E i \in 1..Len(M.funcs) : M.funcs[i].id = id
    THEN CHOOSE i \in 1..Len(M.funcs) : M.funcs[i].id = id
    ELSE 0

\* the names the module's symbol table holds
ModuleNames(M) == {M.funcs[i].Name : i \in 1..Len(M.funcs)} \ {""}

\* Module::getFunction: the id of the function of that name, or 0.  A
\* function without a name is in no symbol table.
getFunction(M, Name) ==
  IF Name # "" /\ \E i \in 1..Len(M.funcs) : M.funcs[i].Name = Name
    THEN M.funcs[CHOOSE i \in 1..Len(M.funcs) : M.funcs[i].Name = Name].id
    ELSE 0

RECURSIVE makeUniqueName(_, _, _, _)
\* ValueSymbolTable::makeUniqueName: append ++LastUnique (after a "." for a
\* global value) until the name is free
makeUniqueName(taken, Name, sep, LastUnique) ==
  IF (Name \o sep \o ToString(LastUnique + 1)) \in taken
    THEN makeUniqueName(taken, Name, sep, LastUnique + 1)
    ELSE [name |-> Name \o sep \o ToString(LastUnique + 1),
          LastUnique |-> LastUnique + 1]

\* Value::setName in a symbol table that holds the names taken
setName(taken, Name, sep, LastUnique) ==
  IF Name # "" /\ Name \in taken
    THEN makeUniqueName(taken, Name, sep, LastUnique)
    ELSE [name |-> Name, LastUnique |-> LastUnique]

RECURSIVE setArgNames(_, _, _)
\* for (auto &Arg : F->args()) Arg.setName(Args[Idx++]);  in the symbol
\* table of the function, which renames a name it already holds
setArgNames(Args, named, LastUnique) ==
  IF Len(named) = Len(Args) THEN named
  ELSE
    Bind(setName({named[i] : i \in 1..Len(named)}, Args[Len(named) + 1], "",
                 LastUnique), LAMBDA u :
      setArgNames(Args, Append(named, u.name), u.LastUnique))

\* the ids of the functions of the module
LiveIds(M) == {M.funcs[i].id : i \in 1..Len(M.funcs)}

\* the instructions of the module
Instructions(M) ==
  UNION {{M.funcs[i].insts[k] : k \in 1..Len(M.funcs[i].insts)} :
           i \in 1..Len(M.funcs)}

\* the addresses of destroyed functions that dangling calls still hold
FreedAddresses(M) ==
  {I.callee : I \in {J \in Instructions(M) : J.dangling}} \ LiveIds(M)

\* operator new of a Function placed the object at the freed address at:
\* the dangling calls that hold this address now point at function id
Reused(fns, at, id) ==
  [i \in 1..Len(fns) |->
     [fns[i] EXCEPT !.insts =
        [k \in 1..Len(fns[i].insts) |->
           IF fns[i].insts[k].dangling /\ fns[i].insts[k].callee = at
             THEN [fns[i].insts[k] EXCEPT !.callee = id]
             ELSE fns[i].insts[k]]]]

\* Function::Create(FT, ExternalLinkage, Name, TheModule.get()).  The
\* allocator gives the object fresh memory (at = 0) or the memory of a
\* destroyed function (at its address).
FunctionCreate(M, Name, nargs, at) ==
  Bind(setName(ModuleNames(M), Name, ".", M.LastUnique), LAMBDA u :
    [M EXCEPT !.funcs =
                Append(IF at \in FreedAddresses(M)
                         THEN Reused(@, at, M.nextId)
                         ELSE @,
                       [id |-> M.nextId, Name |-> u.name,
                        Args |-> [i \in 1..nargs |-> ""],
                        blocks |-> 0, insts |-> << >>]),
              !.LastUnique = u.LastUnique,
              !.nextId = @ + 1])

\* The function list after function id was destroyed: the calls of it in
\* the other functions, which held its address as their callee operand and
\* were in its use list, hold the address of freed memory.
Released(fns, id) ==
  [i \in 1..Len(fns) |->
     [fns[i] EXCEPT !.insts =
        [k \in 1..Len(fns[i].insts) |->
           IF /\ fns[i].id # id
              /\ fns[i].insts[k].op = "call"
              /\ fns[i].insts[k].callee = id
              /\ ~fns[i].insts[k].dangling
             THEN [fns[i].insts[k] EXCEPT !.dangling = TRUE]
             ELSE fns[i].insts[k]]]]

\* the sequence without its k-th element
Remove(seq, k) == SubSeq(seq, 1, k - 1) \o SubSeq(seq, k + 1, Len(seq))

\* Function::eraseFromParent: the function leaves the list and is deleted.
\* Value::~Value does not wait for the uses of the value to go (it asserts
\* that there are none, which a release build of LLVM does not test): the
\* callers keep their operand.
eraseFromParent(s, id) ==
  [s EXCEPT !.TheModule.funcs =
              Remove(Released(@, id), FnIndex(s.TheModule, id))]

-----------------------------------------------------------------------------
(* IRBuilder.                                                              *)

RECURSIVE IsDyadic(_)
\* num / den, den a power of ten, is a multiple of a power of 1/2
IsDyadic(v) ==
  \/ v.den = 1
  \/ /\ v.num % 5 = 0
     /\ IsDyadic([num |-> v.num \div 5, den |-> v.den \div 10])

\* The double is the decimal itself: the conversion of the decimal did not
\* round (the decimal is dyadic, and short enough for the arithmetic on two
\* such values not to round either).
IsExact(v) ==
  /\ "num" \in DOMAIN v
  /\ v.num >= -10000
  /\ v.num <= 10000
  /\ v.den <= 10000
  /\ IsDyadic(v)

\* The double -0.0.  A zero has a sign: [num |-> 0, den |-> 1] is +0.0, what
\* strtod returns for the digits of zero.
NegZero == [num |-> 0, den |-> 1, neg |-> TRUE]

\* the sign bit of an exact double
signbit(v) == v.num < 0 \/ "neg" \in DOMAIN v

\* -v
Negate(v) ==
  IF v.num # 0 THEN [num |-> 0 - v.num, den |-> v.den]
  ELSE IF signbit(v) THEN [num |-> 0, den |-> 1]
  ELSE NegZero

\* a + b in IEEE arithmetic, rounding to nearest: a sum that is zero is +0.0
\* unless both operands are -0.0
Sum(a, b) ==
  IF a.num = 0 /\ b.num = 0
    THEN IF signbit(a) /\ signbit(b) THEN NegZero ELSE [num |-> 0, den |-> 1]
    ELSE Normal([num |-> a.num * b.den + b.num * a.den,
                 den |-> a.den * b.den])

\* a * b in IEEE arithmetic: the sign of a product, zero included, is the
\* exclusive or of the signs of its factors
Product(a, b) ==
  IF a.num = 0 \/ b.num = 0
    THEN IF signbit(a) # signbit(b) THEN NegZero ELSE [num |-> 0, den |-> 1]
    ELSE Normal([num |-> a.num * b.num, den |-> a.den * b.den])

\* the sum, difference or product of two exact doubles
Arith(op, a, b) ==
  IF op = "fadd" THEN Sum(a, b)
  ELSE IF op = "fsub" THEN Sum(a, Negate(b))
  ELSE Product(a, b)

\* The result of an arithmetic instruction on two constants, which the
\* builder's ConstantFolder computes in double arithmetic.  A double is
\* written [num, den], the double nearest to the decimal num / den, or
\* [op, L, R], the double that the IEEE operation op gives on the doubles
\* L and R.  Where both operands are exact the result is exact too, and
\* is computed; where an operand is a rounded value the operation rounds
\* again, and the result is left as the operation on its operands.
FoldBinOp(op, L, R) ==
  IF IsExact(L.Val) /\ IsExact(R.Val)
    THEN ConstantFP(Arith(op, L.Val, R.Val))
    ELSE ConstantFP([op |-> op, L |-> L.Val, R |-> R.Val])

\* Insert an instruction at the insertion point; the value is the instruction
Insert(s, inst) ==
  Bind(FnIndex(s.TheModule, s.Builder), LAMBDA k :
    [st |-> [s EXCEPT !.TheModule.funcs[k].insts = Append(@, inst)],
     r  |-> Instruction(s.Builder, Len(s.TheModule.funcs[k].insts) + 1)])

\* Builder->CreateFAdd / CreateFSub / CreateFMul
CreateBinOp(s, op, L, R) ==
  IF L.kind = "ConstantFP" /\ R.kind = "ConstantFP"
    THEN [st |-> s, r |-> FoldBinOp(op, L, R)]
    ELSE Insert(s, [op |-> op, operands |-> <<L, R>>, callee |-> 0,
                    dangling |-> FALSE])

\* Builder->CreateUIToFP(V, double): a cast to the type the value has
\* returns the value
CreateUIToFP(s, V) == [st |-> s, r |-> V]

\* Builder->CreateCall(CalleeF, ArgsV, "calltmp")
CreateCall(s, CalleeF, ArgsV) ==
  Insert(s, [op |-> "call", operands |-> ArgsV, callee |-> CalleeF,
             dangling |-> FALSE])

\* Builder->CreateRet(RetVal)
CreateRet(s, RetVal) ==
  Insert(s, [op |-> "ret", operands |-> <<RetVal>>, callee |-> 0,
             dangling |-> FALSE]).st


-----------------------------------------------------------------------------
(* Code generation.                                                        *)

\* LogError(Str); return nullptr;
LogErrorV(s, Str) == LogError(s, Str)

NumberExprAST_codegen(s, e) == [st |-> s, r |-> ConstantFP(e.Val)]

\* NamedValues[Name] default-constructs (to nullptr) the entry of a name the
\* map does not hold
VariableExprAST_codegen(s, e) ==
  IF e.Name \in DOMAIN s.NamedValues /\ s.NamedValues[e.Name] # Null
    THEN [st |-> s, r |-> s.NamedValues[e.Name]]
    ELSE LogErrorV([s EXCEPT !.NamedValues =
                      IF e.Name \in DOMAIN @ THEN @ ELSE @ @@ (e.Name :> Null)],
                   "Unknown variable name")

RECURSIVE codegen(_, _), BinaryExprAST_codegen(_, _), CallExprAST_codegen(_, _),
          CallArgs_codegen(_, _, _)

\* the virtual call  ->codegen()  on an expression node
codegen(s, e) ==
  IF e.kind = "Number" THEN NumberExprAST_codegen(s, e)
  ELSE IF e.kind = "Variable" THEN VariableExprAST_codegen(s, e)
  ELSE IF e.kind = "Binary" THEN BinaryExprAST_codegen(s, e)
  ELSE CallExprAST_codegen(s, e)

\* the switch (Op) of BinaryExprAST::codegen
BinaryExprAST_switch(s, Op, L, R) ==
  IF Op = ch_plus THEN CreateBinOp(s, "fadd", L, R)
  ELSE IF Op = ch_minus THEN CreateBinOp(s, "fsub", L, R)
  ELSE IF Op = ch_star THEN CreateBinOp(s, "fmul", L, R)
  ELSE IF Op = ch_lt
    \* case '<' has no return: control falls into default
    THEN LogErrorV(CreateUIToFP(s, L).st, "invalid binary operator")
  ELSE LogErrorV(s, "invalid binary operator")

\* BinaryExprAST::codegen with a slip: the left operand is tested before
\* the right one is lowered.  C7 tells the code from it.
BinaryExprAST_codegen_LeftFirst(s, e) ==
  Bind(codegen(s, e.LHS), LAMBDA L :
    IF L.r = Null THEN L
    ELSE
      Bind(codegen(L.st, e.RHS), LAMBDA R :
        IF R.r = Null THEN R
        ELSE BinaryExprAST_switch(R.st, e.Op, L.r, R.r)))

BinaryExprAST_codegen(s, e) ==
  Bind(codegen(s, e.LHS), LAMBDA L :
    Bind(codegen(L.st, e.RHS), LAMBDA R :
      IF L.r = Null \/ R.r = Null THEN [st |-> R.st, r |-> Null]
      ELSE BinaryExprAST_switch(R.st, e.Op, L.r, R.r)))

\* the for loop of CallExprAST::codegen, entered with the values so far; ok
\* is FALSE where the source returns nullptr
CallArgs_codegen(s, Args, ArgsV) ==
  IF Len(ArgsV) = Len(Args) THEN [st |-> s, ok |-> TRUE, r |-> ArgsV]
  ELSE
    Bind(codegen(s, Args[Len(ArgsV) + 1]), LAMBDA a :
      IF a.r = Null THEN [st |-> a.st, ok |-> FALSE, r |-> ArgsV]
      ELSE CallArgs_codegen(a.st, Args, Append(ArgsV, a.r)))

\* CalleeF->arg_size()
arg_size(M, id) == Len(M.funcs[FnIndex(M, id)].Args)

\* CallExprAST::codegen with a slip: the arguments are lowered before their
\* number is tested.  C4 tells the code from it.
CallExprAST_codegen_ArgsFirst(s, e) ==
  Bind(getFunction(s.TheModule, e.Callee), LAMBDA CalleeF :
    IF CalleeF = 0 THEN LogErrorV(s, "Unknown function referenced")
    ELSE
      Bind(CallArgs_codegen(s, e.Args, << >>), LAMBDA a :
        IF ~a.ok THEN [st |-> a.st, r |-> Null]
        ELSE IF arg_size(s.TheModule, CalleeF) # Len(e.Args)
          THEN LogErrorV(a.st, "Incorrect # arguments passed")
        ELSE CreateCall(a.st, CalleeF, a.r)))

CallExprAST_codegen(s, e) ==
  Bind(getFunction(s.TheModule, e.Callee), LAMBDA CalleeF :
    IF CalleeF = 0 THEN LogErrorV(s, "Unknown function referenced")
    ELSE IF arg_size(s.TheModule, CalleeF) # Len(e.Args)
      THEN LogErrorV(s, "Incorrect # arguments passed")
    ELSE
      Bind(CallArgs_codegen(s, e.Args, << >>), LAMBDA a :
        IF ~a.ok THEN [st |-> a.st, r |-> Null]
        ELSE CreateCall(a.st, CalleeF, a.r)))

\* r is the Function* (its id)
PrototypeAST_codegen(s, P) ==
  Bind(FunctionCreate(s.TheModule, P.Name, Len(P.Args), s.alloc), LAMBDA M :
    [st |-> [s EXCEPT !.TheModule =
               [M EXCEPT !.funcs[Len(M.funcs)].Args =
                           setArgNames(P.Args, << >>, 0)]],
     r  |-> M.funcs[Len(M.funcs)].id])

\* NamedValues.clear(); for (auto &Arg : TheFunction->args())
\*   NamedValues[std::string(Arg.getName())] = &Arg;
BindArgs(F) ==
  [n \in {F.Args[i] : i \in 1..Len(F.Args)} |->
     Argument(F.id, CHOOSE i \in 1..Len(F.Args) : F.Args[i] = n)]

\* FunctionAST::codegen from the check of TheFunction->empty() to the
\* binding of NamedValues; p is the function found or created
FunctionAST_enter(p, k) ==
  IF p.st.TheModule.funcs[k].blocks # 0
    THEN [st |-> LogErrorV(p.st, "Function cannot be redefined.").st, r |-> 0]
    ELSE [st |-> [p.st EXCEPT !.TheModule.funcs[k].blocks = 1,
                              !.Builder = p.r,
                              !.NamedValues = BindArgs(p.st.TheModule.funcs[k])],
          r  |-> p.r]

\* FunctionAST::codegen up to the lowering of the body: r is TheFunction,
\* 0 where the source has returned nullptr
FunctionAST_prologue(s, F) ==
  Bind(getFunction(s.TheModule, F.Proto.Name), LAMBDA found :
    Bind(IF found = 0 THEN PrototypeAST_codegen(s, F.Proto)
         ELSE [st |-> s, r |-> found], LAMBDA p :
      FunctionAST_enter(p, FnIndex(p.st.TheModule, p.r))))

\* r is the Function* (its id), 0 for nullptr
FunctionAST_codegen(s, F) ==
  Bind(FunctionAST_prologue(s, F), LAMBDA f :
    IF f.r = 0 THEN f
    ELSE
      Bind(codegen(f.st, F.Body), LAMBDA RetVal :
        IF RetVal.r # Null
          THEN [st |-> CreateRet(RetVal.st, RetVal.r), r |-> f.r]
          ELSE [st |-> eraseFromParent(RetVal.st, f.r), r |-> 0]))

-----------------------------------------------------------------------------
(* Top level.                                                              *)

NoMap == [k \in {} |-> 0]

\* TheModule = std::make_unique<Module>(...): an empty module
InitializeModule(s) ==
  [s EXCEPT !.TheModule = [funcs |-> << >>, LastUnique |-> 0, nextId |-> 1]]

\* each handler returns the state it leaves, the AST it parsed (or Null) and
\* the function it generated (or 0)
HandleDefinition(s) ==
  Bind(ParseDefinition(s), LAMBDA FnAST :
    IF FnAST.r # Null
      THEN Bind(FunctionAST_codegen(FnAST.st, FnAST.r), LAMBDA FnIR :
             [st |-> FnIR.st, ast |-> FnAST.r, ir |-> FnIR.r])
      ELSE [st |-> getNextTok(FnAST.st), ast |-> Null, ir |-> 0])

HandleExtern(s) ==
  Bind(ParseExtern(s), LAMBDA ProtoAST :
    IF ProtoAST.r # Null
      THEN Bind(PrototypeAST_codegen(ProtoAST.st, ProtoAST.r), LAMBDA FnIR :
             [st |-> FnIR.st, ast |-> ProtoAST.r, ir |-> FnIR.r])
      ELSE [st |-> getNextTok(ProtoAST.st), ast |-> Null, ir |-> 0])

\* HandleTopLevelExpression with a slip: no token is skipped after a parse
\* error.  C9 tells the code from it.
HandleTopLevelExpression_NoSkip(s) ==
  Bind(ParseTopLevelExpr(s), LAMBDA FnAST :
    IF FnAST.r # Null
      THEN Bind(FunctionAST_codegen(FnAST.st, FnAST.r), LAMBDA FnIR :
             [st |-> IF FnIR.r # 0 THEN eraseFromParent(FnIR.st, FnIR.r)
                     ELSE FnIR.st,
              ast |-> FnAST.r, ir |-> FnIR.r])
      ELSE [st |-> FnAST.st, ast |-> Null, ir |-> 0])

HandleTopLevelExpression(s) ==
  Bind(ParseTopLevelExpr(s), LAMBDA FnAST :
    IF FnAST.r # Null
      THEN Bind(FunctionAST_codegen(FnAST.st, FnAST.r), LAMBDA FnIR :
             [st |-> IF FnIR.r # 0 THEN eraseFromParent(FnIR.st, FnIR.r)
                     ELSE FnIR.st,
              ast |-> FnAST.r, ir |-> FnIR.r])
      ELSE [st |-> getNextTok(FnAST.st), ast |-> Null, ir |-> 0])

-----------------------------------------------------------------------------
(* The state machine.                                                      *)

\* The globals as one record, with what the step will get from its
\* environment: alloc is where the allocator will place the Function object
\* the step creates (0 is fresh memory).
State(alloc) ==
  [pos |-> pos, LastChar |-> LastChar, IndetifierStr |-> IndetifierStr,
   NumVal |-> NumVal, CurTok |-> CurTok, BinopPrecedence |-> BinopPrecedence,
   TheModule |-> TheModule, Builder |-> Builder, NamedValues |-> NamedValues,
   log |-> log, ntok |-> ntok, alloc |-> alloc]

\* where the allocator may place a Function object
Allocations == {0} \cup FreedAddresses(TheModule)

\* the globals take the values of record s, and main is in MainLoop
Becomes(s) ==
  /\ pos' = s.pos
  /\ LastChar' = s.LastChar
  /\ IndetifierStr' = s.IndetifierStr
  /\ NumVal' = s.NumVal
  /\ CurTok' = s.CurTok
  /\ BinopPrecedence' = s.BinopPrecedence
  /\ TheModule' = s.TheModule
  /\ Builder' = s.Builder
  /\ NamedValues' = s.NamedValues
  /\ log' = s.log
  /\ ntok' = s.ntok
  /\ pc' = "loop"

\* One step of main: the globals become those of h.st, and last records the
\* case of the switch the step took, the AST it parsed, the function it
\* generated and the number of the iteration of MainLoop.
Step(op, h, n) ==
  /\ Becomes(h.st)
  /\ last' = [op |-> op, ast |-> h.ast, ir |-> h.ir, n |-> n]
  /\ UNCHANGED <<input, gen>>

\* Static initialisation, before main runs.
InitGlobals ==
  /\ pos = 0
  /\ LastChar = ch_space
  /\ IndetifierStr = ""
  /\ NumVal = [num |-> 0, den |-> 1]
  /\ CurTok = 0
  /\ BinopPrecedence = NoMap
  /\ TheModule = Null
  /\ Builder = 0
  /\ NamedValues = NoMap
  /\ log = << >>
  /\ pc = "start"
  /\ ntok = 0
  /\ last = [op |-> "none", ast |-> Null, ir |-> 0, n |-> 0]

\* the table main installs
StandardBinops ==
  (ch_lt :> 10) @@ (ch_plus :> 20) @@ (ch_minus :> 30) @@ (ch_star :> 40)

\* main, up to the call of MainLoop
main(s) ==
  [st  |-> InitializeModule(getNextTok(
             [s EXCEPT !.BinopPrecedence = StandardBinops])),
   ast |-> Null, ir |-> 0]

Start ==
  /\ pc = "start"
  /\ Step("start", main(State(0)), 0)

\* case tok_eof: return;
MainLoopReturn ==
  /\ pc = "loop"
  /\ CurTok = tok_eof
  /\ pc' = "returned"
  /\ last' = [op |-> "return", ast |-> Null, ir |-> 0, n |-> last.n + 1]
  /\ UNCHANGED <<input, gen, pos, LastChar, IndetifierStr, NumVal, CurTok,
                 BinopPrecedence, TheModule, Builder, NamedValues, log,
                 ntok>>

\* case ';': getNextTok();
SkipSemicolon ==
  /\ pc = "loop"
  /\ CurTok = ch_semi
  /\ Step("semi", [st |-> getNextTok(State(0)), ast |-> Null, ir |-> 0],
          last.n + 1)

\* case tok_def: HandleDefinition();
Definition ==
  /\ pc = "loop"
  /\ CurTok = tok_def
  /\ \E at \in Allocations :
       Step("def", HandleDefinition(State(at)), last.n + 1)

\* case tok_extern: HandleExtern();
Extern ==
  /\ pc = "loop"
  /\ CurTok = tok_extern
  /\ \E at \in Allocations :
       Step("extern", HandleExtern(State(at)), last.n + 1)

\* default: HandleTopLevelExpression();
TopLevelExpression ==
  /\ pc = "loop"
  /\ CurTok \notin {tok_eof, ch_semi, tok_def, tok_extern}
  /\ \E at \in Allocations :
       Step("expr", HandleTopLevelExpression(State(at)), last.n + 1)

\* TheModule->print(errs(), nullptr): whether the printer reads freed
\* memory.  It prints every instruction of every function, and for a call
\* the name of its callee; the callee of a dangling call is a Function
\* again only where a function was created at its address and is alive.
PrintReadsFreed(M) ==
  \E I \in Instructions(M) : I.dangling /\ I.callee \notin LiveIds(M)

\* main after MainLoop: TheModule->print(errs(), nullptr); return 0; and the
\* destruction of TheModule at exit.  Where the printer reads freed memory
\* the behaviour is undefined: the process is killed by a signal, or what
\* is read still passes for a function and the process exits.
PrintModule ==
  /\ pc = "returned"
  /\ \/ pc' = "exited"
     \/ PrintReadsFreed(TheModule) /\ pc' = "killed"
  /\ last' = [op |-> "print", ast |-> Null, ir |-> 0, n |-> last.n]
  /\ UNCHANGED <<input, gen, pos, LastChar, IndetifierStr, NumVal, CurTok,
                 BinopPrecedence, TheModule, Builder, NamedValues, log,
                 ntok>>

-----------------------------------------------------------------------------
(* Inputs: programs.                                                       *)

RECURSIVE Join(_)
\* the lines of a program, one after the other
Join(lines) ==
  IF lines = << >> THEN << >>
  ELSE Head(lines) \o <<"\n">> \o Join(Tail(lines))

\* the source lines the programs of Spec are made of
Lines ==
  { <<"e","x","t","e","r","n"," ","f","(","a",")">>,
    <<"d","e","f"," ","f","(","b",")"," ","b">>,
    <<"d","e","f"," ","f","(","a",")"," ","a","+","1">>,
    <<"e","x","t","e","r","n"," ","f","(","a",")"," ",
      "d","e","f"," ","g","(","x",")"," ","f","(","x",")","*","2">>,
    <<"f","(","f","(","1",",","2",")",")">>,
    <<"d","e","f"," ","g","(","x",")"," ","f","(","y",",","x","<","1",")">>,
    <<"1","<","2",";"," ","x","+","f","(","2",")","-","y",";">>,
    <<"e","x","t","e","r","n"," ","2"," ",
      "d","e","f"," ","h","(","a"," ","a",")"," ","a","1","-","g","(","a",")">>,
    <<"e","x","t","e","r","n"," ","g","(","a"," ","b",")"," ","#"," ","c">>,
    <<"d","e","f"," ","f","(",")"," ","(","1",".","5","+",".","5",")","*",".","1","+",".","2",
      "-","0","*","(",".","5","-","1",".","5",")",")">> }

Init ==
  /\ InitGlobals
  /\ \E n \in 1..MaxItems : \E lines \in [1..n -> Lines] :
       /\ input = Join(lines)
       /\ gen = [kind |-> "program", n |-> n]

Next ==
  \/ Start
  \/ MainLoopReturn
  \/ SkipSemicolon
  \/ Definition
  \/ Extern
  \/ TopLevelExpression
  \/ PrintModule

Spec == Init /\ [][Next]_vars

-----------------------------------------------------------------------------
(* Inputs: expressions.  An input of SpecParse is one expression           *)
(*   p1 op1 p2 ... opn p(n+1)                                              *)
(* followed by a tail.  gen is its recipe: ops are the operators, primary  *)
(* number i is the digit i, except primary number gen.at, which is of kind *)
(* gen.prim: a number, the variable v, (7+8-9) or f(7,8*9).                *)

Operators == {ch_lt, ch_plus, ch_minus, ch_star}

PrimaryKinds == {"num", "var", "paren", "call"}

Tails == { << >>, <<";">>, <<" ", "y">>, <<")">> }

Recipes ==
  { g \in [ops : UNION {[1..n -> Operators] : n \in 0..MaxOperators},
           prim : PrimaryKinds, at : 1..(MaxOperators + 1), tail : Tails] :
      /\ g.at <= Len(g.ops) + 1
      /\ g.prim = "num" => g.at = 1 }

\* the characters of primary number i of recipe g
PrimaryText(g, i) ==
  IF i # g.at \/ g.prim = "num" THEN <<ToString(i)>>
  ELSE IF g.prim = "var" THEN <<"v">>
  ELSE IF g.prim = "paren" THEN <<"(", "7", "+", "8", "-", "9", ")">>
  ELSE <<"f", "(", "7", ",", "8", "*", "9", ")">>

\* the number of tokens of primary number i of recipe g
PrimaryTokens(g, i) == Len(PrimaryText(g, i))

RECURSIVE ExprText(_, _)
\* the characters of recipe g from primary number i on
ExprText(g, i) ==
  IF i = Len(g.ops) + 1 THEN PrimaryText(g, i)
  ELSE PrimaryText(g, i) \o <<Chr(g.ops[i])>> \o ExprText(g, i + 1)

RECURSIVE ExprTokens(_, _)
\* the number of tokens of recipe g from primary number i on
ExprTokens(g, i) ==
  IF i = Len(g.ops) + 1 THEN PrimaryTokens(g, i)
  ELSE PrimaryTokens(g, i) + 1 + ExprTokens(g, i + 1)

InitParse ==
  /\ InitGlobals
  /\ gen \in Recipes
  /\ input = ExprText(gen, 1) \o gen.tail

\* the cases of MainLoop an expression input can take
NextParse ==
  \/ Start
  \/ MainLoopReturn
  \/ SkipSemicolon
  \/ TopLevelExpression
  \/ PrintModule

SpecParse == InitParse /\ [][NextParse]_vars

-----------------------------------------------------------------------------
(* The tree an expression input stands for, read off its recipe.           *)

\* the literal i
Literal(i) == NumberExprAST([num |-> i, den |-> 1])

\* The operator that is applied last: of the operators of least precedence
\* the rightmost one.
RootOperator(ops, prec) ==
  CHOOSE k \in 1..Len(ops) :
    \A j \in 1..Len(ops) :
      /\ prec[ops[k]] <= prec[ops[j]]
      /\ j > k => prec[ops[k]] < prec[ops[j]]

RECURSIVE Grouping(_, _, _)
\* The tree of  prims[1] ops[1] prims[2] ... : an operator of higher
\* precedence than a neighbour is the deeper node, operators of the same
\* precedence nest to the left.
Grouping(prims, ops, prec) ==
  IF ops = << >> THEN prims[1]
  ELSE
    Bind(RootOperator(ops, prec), LAMBDA k :
      BinaryExprAST(ops[k],
        Grouping(SubSeq(prims, 1, k), SubSeq(ops, 1, k - 1), prec),
        Grouping(SubSeq(prims, k + 1, Len(prims)),
                 SubSeq(ops, k + 1, Len(ops)), prec)))

\* the tree of primary number i of recipe g
PrimaryTree(g, i, prec) ==
  IF i # g.at \/ g.prim = "num" THEN Literal(i)
  ELSE IF g.prim = "var" THEN VariableExprAST("v")
  ELSE IF g.prim = "paren"
    THEN Grouping(<<Literal(7), Literal(8), Literal(9)>>,
                  <<ch_plus, ch_minus>>, prec)
  ELSE CallExprAST("f", <<Literal(7),
                          Grouping(<<Literal(8), Literal(9)>>, <<ch_star>>,
                                   prec)>>)

\* the tree of recipe g under the precedences prec
ExpressionTree(g, prec) ==
  Grouping([i \in 1..(Len(g.ops) + 1) |-> PrimaryTree(g, i, prec)], g.ops, prec)

\* the token that follows the expression of recipe g
TailToken(g) ==
  IF g.tail = << >> THEN tok_eof
  ELSE IF g.tail = <<";">> THEN ch_semi
  ELSE IF g.tail = <<")">> THEN ch_rparen
  ELSE tok_identifier

\* the state after the first iteration of MainLoop on an expression input
FirstParsed == last.n = 1 /\ last.op = "expr"

\* the precedences of conventional arithmetic
ConventionalPrecedence ==
  (ch_lt :> 10) @@ (ch_plus :> 20) @@ (ch_minus :> 20) @@ (ch_star :> 40)

-----------------------------------------------------------------------------
(* C5: the parser groups the four built-in operators as conventional       *)
(* arithmetic does: '*' binds tighter than '+' and '-', which have one     *)
(* precedence and bind tighter than '<', and operators of one precedence   *)
(* nest to the left.  So the tree parsed from an expression input is the   *)
(* tree of its recipe under the conventional precedences.                  *)
(* Checked under SpecParse.  The code refutes it: main gives '-' the       *)
(* precedence 30 and '+' 20, so 1+2-3 is parsed as 1+(2-3).                *)
C5_StandardPrecedence ==
  FirstParsed =>
    /\ last.ast # Null
    /\ last.ast.Body = ExpressionTree(gen, ConventionalPrecedence)

-----------------------------------------------------------------------------
(* C6: precedence climbing is correct with respect to the table: on an     *)
(* input p1 op1 p2 ... opn p(n+1) of primaries and known operators,        *)
(* ParseExpression returns the tree in which the operator of strictly      *)
(* higher table precedence is the deeper one and operators of equal        *)
(* precedence nest to the left, a parenthesised expression being one       *)
(* operand; and it consumes exactly the tokens of the expression: the      *)
(* current token is then the token after it.                               *)
(* Checked under SpecParse.                                                *)
C6_ClimbingFollowsTable ==
  FirstParsed =>
    /\ last.ast = FunctionAST(PrototypeAST("", << >>),
                              ExpressionTree(gen, BinopPrecedence))
    /\ ntok = ExprTokens(gen, 1) + 1
    /\ CurTok = TailToken(gen)

\* 1+2*3+(7+8-9) has been parsed: '*' below the first '+', the first '+'
\* below the second, the parenthesised expression the operand of the second
C6_Witness ==
  /\ FirstParsed
  /\ gen.ops = <<ch_plus, ch_star, ch_plus>>
  /\ gen.prim = "paren"
  /\ gen.at = 4
  /\ last.ast.Body.Op = ch_plus
  /\ last.ast.Body.RHS.kind = "Binary"
  /\ last.ast.Body.LHS.Op = ch_plus
  /\ last.ast.Body.LHS.RHS.Op = ch_star
  /\ CurTok = TailToken(gen)

-----------------------------------------------------------------------------
(* What the properties of the lowering speak of.                           *)

\* the functions of the function table
Functions(M) == {M.funcs[i] : i \in 1..Len(M.funcs)}

\* the functions of that name in the function table
Named(M, Name) == {F \in Functions(M) : F.Name = Name}

\* a function of that name with a body is in the function table
IsDefined(M, Name) == \E F \in Named(M, Name) : F.blocks # 0

\* a function of that name is in the function table, and none has a body
IsDeclaredOnly(M, Name) ==
  /\ Named(M, Name) # {}
  /\ \A F \in Named(M, Name) : F.blocks = 0

\* the last diagnostic written
LastLogged(l) == IF l = << >> THEN "" ELSE l[Len(l)]

\* The step lowers the body of a function: it is a definition or a top-level
\* expression that parsed, and no definition of that name was there before
\* (else the lowering stops before the body).
LowersBody ==
  /\ pc = "loop"
  /\ last'.op \in {"def", "expr"}
  /\ last'.ast # Null
  /\ ~IsDefined(TheModule, last'.ast.Proto.Name)

RECURSIVE BinaryLeaves(_)
\* the variables of an expression that are operands of its binary
\* operations, at any depth
BinaryLeaves(e) ==
  IF e.kind = "Variable" THEN {e.Name}
  ELSE IF e.kind = "Binary" THEN BinaryLeaves(e.LHS) \cup BinaryLeaves(e.RHS)
  ELSE {}

RECURSIVE IsClosed(_, _, _)
\* The expression refers only to the variables in params and calls only
\* functions of the table M with as many arguments as they have parameters.
\* It does not use '<', whose lowering is the matter of C1.
IsClosed(e, params, M) ==
  IF e.kind = "Number" THEN TRUE
  ELSE IF e.kind = "Variable" THEN e.Name \in params
  ELSE IF e.kind = "Binary"
    THEN /\ e.Op \in {ch_plus, ch_minus, ch_star}
         /\ IsClosed(e.LHS, params, M)
         /\ IsClosed(e.RHS, params, M)
  ELSE /\ getFunction(M, e.Callee) # 0
       /\ arg_size(M, getFunction(M, e.Callee)) = Len(e.Args)
       /\ \A i \in 1..Len(e.Args) : IsClosed(e.Args[i], params, M)

\* The state in which the step has parsed its function: parsing writes the
\* globals of the lexer and of the parser, and the lowering that follows
\* writes none of them.
AfterParse(at) ==
  [State(at) EXCEPT !.pos = pos', !.LastChar = LastChar',
                    !.IndetifierStr = IndetifierStr', !.NumVal = NumVal',
                    !.CurTok = CurTok', !.BinopPrecedence = BinopPrecedence',
                    !.ntok = ntok']

\* the state in which the step, given memory at by the allocator, starts
\* to lower the body of the function it has parsed
BodyEntry(at) == FunctionAST_prologue(AfterParse(at), last'.ast).st

RECURSIVE HasCall(_)
\* the expression holds a call, at any depth
HasCall(e) ==
  IF e.kind = "Call" THEN TRUE
  ELSE IF e.kind = "Binary" THEN HasCall(e.LHS) \/ HasCall(e.RHS)
  ELSE FALSE

RECURSIVE CallsLowered(_, _), ArgCallsLowered(_, _, _)
\* The calls that the lowering of expression e from state s reaches, each
\* with the state in which its lowering starts: both operands of a binary
\* operation are reached, and the arguments of a call of a known function
\* with the right number of arguments up to the first that fails.
CallsLowered(s, e) ==
  IF e.kind = "Binary"
    THEN CallsLowered(s, e.LHS) \cup CallsLowered(codegen(s, e.LHS).st, e.RHS)
  ELSE IF e.kind = "Call"
    THEN {[st |-> s, call |-> e]} \cup
         ( IF /\ getFunction(s.TheModule, e.Callee) # 0
              /\ arg_size(s.TheModule, getFunction(s.TheModule, e.Callee))
                   = Len(e.Args)
             THEN ArgCallsLowered(s, e.Args, 1)
             ELSE {} )
  ELSE {}

ArgCallsLowered(s, Args, i) ==
  IF i > Len(Args) THEN {}
  ELSE CallsLowered(s, Args[i]) \cup
       Bind(codegen(s, Args[i]), LAMBDA a :
         IF a.r = Null THEN {} ELSE ArgCallsLowered(a.st, Args, i + 1))

\* call c is of a function of the table, with another number of arguments
\* than the function has parameters
WrongArity(c) ==
  /\ getFunction(c.st.TheModule, c.call.Callee) # 0
  /\ arg_size(c.st.TheModule, getFunction(c.st.TheModule, c.call.Callee))
       # Len(c.call.Args)

\* What is left to read: the characters of the input not read yet, the
\* character read ahead and the token read ahead.
Remaining ==
  (Len(input) - pos) + (IF LastChar = EOF THEN 0 ELSE 1)
                     + (IF CurTok = tok_eof THEN 0 ELSE 1)

-----------------------------------------------------------------------------
(* C1: lowering a '<' whose two operands lower successfully succeeds: it   *)
(* returns a value and does not take the "invalid binary operator" path.   *)
(* In particular the top-level expression 1 < 2 (two literals, which       *)
(* always lower) yields a function.                                        *)
(* Checked under Spec.  The code refutes it: case '<' of the switch has no *)
(* return and falls into default.                                          *)
C1_LessThanLowers ==
  ( /\ last.op = "expr"
    /\ last.ast # Null
    /\ last.ast.Body.kind = "Binary"
    /\ last.ast.Body.Op = ch_lt
    /\ last.ast.Body.LHS.kind = "Number"
    /\ last.ast.Body.RHS.kind = "Number" )
  => /\ last.ir # 0
     /\ LastLogged(log) # "invalid binary operator"

-----------------------------------------------------------------------------
(* C2: redefinition law.  A function that has a body stays in the function *)
(* table, with the same name, parameters and body, whatever is lowered     *)
(* later; and lowering a later definition of its name fails with the       *)
(* redefinition error.                                                     *)
(* Checked under Spec.  The code refutes it where a failed definition      *)
(* destroys a function that a body calls (C8): from then on the call of    *)
(* that body has the address of freed memory as its callee, and a function *)
(* created later at that address becomes the callee of the call.  The body *)
(* has changed without a definition of its name.                           *)
C2_RedefinitionLaw ==
  [][ pc = "loop" =>
        /\ \A F \in Functions(TheModule) :
             F.blocks # 0 => F \in Functions(TheModule')
        /\ ( /\ last'.op = "def"
             /\ last'.ast # Null
             /\ IsDefined(TheModule, last'.ast.Proto.Name) )
           => /\ last'.ir = 0
              /\ log' = Append(log, "Function cannot be redefined.") ]_vars

-----------------------------------------------------------------------------
(* C3: extern then define.  Where f is declared and has no body, lowering  *)
(* a definition of f whose body refers only to the definition's own        *)
(* parameters (distinct names) and to known functions with the right       *)
(* number of arguments succeeds; the local-variable table binds each       *)
(* parameter name of the definition to the formal parameter at its         *)
(* position; and afterwards exactly one function is named f and it has a   *)
(* body.                                                                   *)
(* Checked under Spec.  The code refutes it: the definition reuses the     *)
(* declared function with the parameter names of the declaration.          *)
C3_ExternThenDefine ==
  [][ ( /\ pc = "loop"
        /\ last'.op = "def"
        /\ last'.ast # Null
        /\ IsDeclaredOnly(TheModule, last'.ast.Proto.Name)
        /\ \A i, j \in 1..Len(last'.ast.Proto.Args) :
             last'.ast.Proto.Args[i] = last'.ast.Proto.Args[j] => i = j
        /\ IsClosed(last'.ast.Body,
                    {last'.ast.Proto.Args[i] : i \in 1..Len(last'.ast.Proto.Args)},
                    TheModule) )
      => /\ last'.ir # 0
         /\ NamedValues' =
              [n \in {last'.ast.Proto.Args[i] :
                        i \in 1..Len(last'.ast.Proto.Args)} |->
                 Argument(last'.ir,
                          CHOOSE i \in 1..Len(last'.ast.Proto.Args) :
                            last'.ast.Proto.Args[i] = n)]
         /\ \E F \in Functions(TheModule') :
              /\ F.blocks # 0
              /\ Named(TheModule', last'.ast.Proto.Name) = {F} ]_vars

-----------------------------------------------------------------------------
(* C4: arity law.  Lowering a call of a function of the table with n       *)
(* parameters, passing m # n arguments, fails with the                     *)
(* incorrect-argument-count error whatever the arguments are, and does     *)
(* nothing else: it returns nullptr, that diagnostic is the one thing it   *)
(* writes, no argument is lowered (no variable is looked up, no            *)
(* instruction of an argument is inserted, no diagnostic of an argument is *)
(* written) and no call instruction is emitted (the module is as before).  *)
(* This holds of every call that the lowering of a body reaches, be it the *)
(* body, an operand of a binary operation or an argument of another call;  *)
(* and the body that holds it yields no function.                          *)
(* Checked under Spec.                                                     *)
C4_ArityLaw ==
  [][ LowersBody /\ HasCall(last'.ast.Body) =>
        \A at \in Allocations :
          \A c \in CallsLowered(BodyEntry(at), last'.ast.Body) :
            WrongArity(c) =>
              /\ CallExprAST_codegen(c.st, c.call) =
                   [st |-> [c.st EXCEPT
                              !.log = Append(@, "Incorrect # arguments passed")],
                    r  |-> Null]
              /\ last'.ir = 0
              /\ \E k \in (Len(log) + 1)..Len(log') :
                   log'[k] = "Incorrect # arguments passed" ]_vars

\* f(f(1,2)) has been lowered with f of one parameter: the call that is
\* the argument failed on its argument count, and no function resulted
C4_Witness ==
  /\ last.op = "expr"
  /\ last.ast # Null
  /\ last.ast.Body.kind = "Call"
  /\ Len(last.ast.Body.Args) = 1
  /\ last.ast.Body.Args[1].kind = "Call"
  /\ Len(last.ast.Body.Args[1].Args) = 2
  /\ getFunction(TheModule, last.ast.Body.Args[1].Callee) # 0
  /\ arg_size(TheModule, getFunction(TheModule, last.ast.Body.Args[1].Callee))
       = 1
  /\ last.ir = 0
  /\ LastLogged(log) = "Incorrect # arguments passed"

-----------------------------------------------------------------------------
(* C7 as the specification has it: lowering a binary operation stops at a  *)
(* failure of the left operand; the right operand is not lowered: no       *)
(* lookup, diagnostic or instruction is made for it.  So where the left    *)
(* operand of a body is a variable that is not bound, its diagnostic is    *)
(* the only one and its entry the only empty one of the local-variable     *)
(* table.                                                                  *)
(* Checked under Spec.  The code refutes it: both operands are lowered     *)
(* before either result is tested.                                         *)
C7_ShortCircuit ==
  [][ ( /\ LowersBody
        /\ last'.ast.Body.kind = "Binary"
        /\ last'.ast.Body.LHS.kind = "Variable"
        /\ last'.ast.Body.LHS.Name \in DOMAIN NamedValues'
        /\ NamedValues'[last'.ast.Body.LHS.Name] = Null )
      => /\ last'.ir = 0
         /\ log' = Append(log, "Unknown variable name")
         /\ \A n \in DOMAIN NamedValues' :
              NamedValues'[n] = Null => n = last'.ast.Body.LHS.Name ]_vars

(* C7, amended: where lowering the left operand fails, the right operand   *)
(* is lowered all the same, and then the failure is returned.  So where    *)
(* the left operand of a body is a variable that is not bound, no function *)
(* results, its diagnostic is the first one written, and every variable    *)
(* that is an operand of a binary operation of the right operand has been  *)
(* looked up, each unbound one with a diagnostic of its own.               *)
(* Checked under Spec.                                                     *)
C7_BothOperandsLowered ==
  [][ ( /\ LowersBody
        /\ last'.ast.Body.kind = "Binary"
        /\ last'.ast.Body.LHS.kind = "Variable"
        /\ last'.ast.Body.LHS.Name \in DOMAIN NamedValues'
        /\ NamedValues'[last'.ast.Body.LHS.Name] = Null )
      => /\ last'.ir = 0
         /\ Len(log') > Len(log)
         /\ SubSeq(log', 1, Len(log) + 1) = Append(log, "Unknown variable name")
         /\ BinaryLeaves(last'.ast.Body.RHS) \subseteq DOMAIN NamedValues'
         /\ Len(log') >= Len(log) + 1 +
              Cardinality({n \in BinaryLeaves(last'.ast.Body.RHS) :
                             /\ NamedValues'[n] = Null
                             /\ n # last'.ast.Body.LHS.Name}) ]_vars

\* x+f(2)-y has been lowered: x failed, and y was looked up all the same
C7_Witness ==
  /\ last.op = "expr"
  /\ last.ast # Null
  /\ last.ast.Body.kind = "Binary"
  /\ last.ast.Body.LHS = VariableExprAST("x")
  /\ "y" \in BinaryLeaves(last.ast.Body.RHS)
  /\ last.ir = 0
  /\ DOMAIN NamedValues = {"x", "y"}
  /\ NamedValues["y"] = Null
  /\ LastLogged(log) = "Unknown variable name"
  /\ Len(log) >= 2

-----------------------------------------------------------------------------
(* C8: a failed lowering of a function definition leaves the function      *)
(* table as it was: no partly built function is in it, and every function  *)
(* declared or defined before, a declaration of the name of the failing    *)
(* definition included, is still there.                                    *)
(* Checked under Spec.  The code refutes it: a definition that fails on    *)
(* its body erases the function it entered, which may be a declaration     *)
(* made by an earlier extern.                                              *)
C8_FailedDefinitionFrame ==
  [][ ( /\ pc = "loop"
        /\ last'.op = "def"
        /\ last'.ast # Null
        /\ last'.ir = 0 )
      => TheModule'.funcs = TheModule.funcs ]_vars

-----------------------------------------------------------------------------
(* C9: the driver loop makes progress and terminates.  Every iteration of  *)
(* MainLoop that does not return consumes at least one token (whether the  *)
(* construct parsed, failed to parse or failed to lower) and leaves main   *)
(* in the loop; once the tokenizer has reached end-of-input every later    *)
(* call returns end-of-input; and at end-of-input MainLoop returns.  What  *)
(* is left to read is never negative and every iteration that does not     *)
(* return makes it less, so on every finite input MainLoop reaches         *)
(* end-of-input and returns.  (The parser loops are part of the steps:     *)
(* each step is the whole handler, run to its end.)                        *)
(* Checked under Spec.                                                     *)
C9_MainLoopReturns ==
  /\ [][ pc = "loop" /\ pc' # "returned" =>
           /\ pc' = "loop"
           /\ ntok' > ntok
           /\ Remaining' < Remaining ]_vars
  /\ [][ pc = "loop" /\ CurTok = tok_eof => pc' = "returned" ]_vars
  /\ [](Remaining >= 0)
  /\ []( pc = "loop" /\ LastChar = EOF =>
           /\ getTok(State(0)).r = tok_eof
           /\ getTok(State(0)).st.LastChar = EOF )

\* MainLoop has returned after an iteration that failed to parse and one
\* that failed to lower, and each consumed a token
C9_Witness ==
  /\ pc = "returned"
  /\ last.op = "return"
  /\ last.n >= 4
  /\ ntok > last.n
  /\ \E i, j \in 1..Len(log) :
       /\ log[i] = "unknown token when expecting an expression."
       /\ log[j] = "Unknown variable name"

-----------------------------------------------------------------------------
(* C10 as the specification has it: the precedence table is read-only      *)
(* while parsing: once main has filled it, no parse operation adds,        *)
(* removes or changes an entry, and its key set is the same in every state.*)
(* Checked under Spec.  The code refutes it: a precedence query for a      *)
(* token that is no key, such as ';' or ')', adds that key.                *)
C10_TableReadOnly ==
  pc # "start" => BinopPrecedence = StandardBinops

(* C10, amended: once main has filled the precedence table, the entries of *)
(* the four operators never change and none is removed; a precedence query *)
(* for an ASCII token that is no key adds an entry of value 0 for it, which*)
(* is read as  not an operator.  So the keys of positive precedence are    *)
(* the same in every state.                                                *)
(* Checked under Spec.                                                     *)
C10_OperatorsUnchanged ==
  pc # "start" =>
    /\ DOMAIN StandardBinops \subseteq DOMAIN BinopPrecedence
    /\ \A k \in DOMAIN BinopPrecedence :
         /\ isascii(k)
         /\ BinopPrecedence[k] =
              IF k \in DOMAIN StandardBinops THEN StandardBinops[k] ELSE 0

\* a query for ')' has added the key, and the four operators are as before
C10_Witness ==
  /\ pc = "loop"
  /\ ch_rparen \in DOMAIN BinopPrecedence
  /\ BinopPrecedence[ch_rparen] = 0
  /\ BinopPrecedence[ch_minus] = 30
  /\ Cardinality(DOMAIN BinopPrecedence) > 4

=============================================================================
